---- MODULE Spec2Model ----
(***************************************************************************)
(* Model of the guardrail-gated classification service of                  *)
(* src/textclassification/llmapplication.ipynb (last code cell: the        *)
(* /classify and /convert endpoints, with classify_description,            *)
(* __evaluate_input and the LLMApplicationMonitoring wrapper they call).   *)
(*                                                                         *)
(* A request is followed statement by statement through the endpoint.  The *)
(* scanner, the taxonomy file, the classifier chain and the monitoring     *)
(* client are outside the notebook: each of their calls is an action whose *)
(* result is drawn from a small set, and each may instead raise.  The      *)
(* monitoring backend is a set of traces and a store of scores keyed by    *)
(* score id, written by langfuse.score(id=..., trace_id=..., ...), which   *)
(* stores the score under the given id, or under a new id when none is     *)
(* given.                                                                  *)
(*                                                                         *)
(* Both endpoints are "async def" with no await in their bodies, so the    *)
(* event loop runs each handler to its end before it starts another: Next  *)
(* starts a request or a conversion only when no request is in flight.     *)
(***************************************************************************)
EXTENDS Integers, FiniteSets, Sequences, TLC

\* Number of /classify requests of a run.
NumRequests == 2

Requests == 1..NumRequests

\* Number of /convert calls of a run.
MaxConverts == 2

\* Score unit: tenths.  The comparison of classify_description, >= 0.5.
Threshold == 5

\* Scores the prompt-injection scanner may report, in tenths: just below the
\* threshold, the threshold itself, just above it.
Scores == {Threshold - 1, Threshold, Threshold + 1}

\* item.description: the empty string and a non-empty text (what the
\* scanner makes of the text is the score drawn at the scan).
Descriptions == {"", "The sun is shining today"}

\* The scanners input_guardrail holds: prompt_injection(0.5) is the only one
\* that is configured.
Scanners == {"PromptInjection"}

\* The eight keys classify_description requires of the classifier's output.
RequiredFields ==
    {"description", "id", "parent_id", "name", "tier_1", "tier_2", "tier_3", "tier_4"}

\* Outputs of the classifier chain (the key set of the parsed JSON object):
\* complete, one required key missing, empty.
ClassifierOutputs ==
    {RequiredFields, {}} \cup {RequiredFields \ {f} : f \in RequiredFields}

\* Exception classes as the endpoint's "except ValueError" tells them apart.
ExceptionTypes == {"ValueError", "Exception"}

\* str(e) of what the taxonomy read raises: open() finds no file, json.load
\* finds no JSON document.
TaxonomyErrors ==
    {"[Errno 2] No such file or directory: 'iab_taxonomy.json'",
     "Expecting property name enclosed in double quotes: line 1 column 2 (char 1)"}

\* Python's None.
None == <<>>

\* Identifiers of the monitoring backend.  The client issues a new one per
\* trace and per score; number 0 of each kind is never issued.
TraceId(n) == <<"t", n>>
ScoreId(n) == <<"s", n>>
UnknownTraceId == TraceId(0)
UnknownScoreId == ScoreId(0)

\* The messages of the ValueErrors classify_description raises.
InvalidInput == "description is required in request body"
BlockedInput == "Input contains prompt injection"
\* f"Error loading taxonomy file: {e}".
TaxonomyUnavailable(e) == "Error loading taxonomy file: " \o e
IncompleteResult == "Result does not contain the required 'category' and 'tips' fields"
\* Failures of the collaborators (the message is the collaborator's).
ScannerUnavailable == "ScannerUnavailable"
ClassificationFailed == "ClassificationFailed"
MonitoringFailed == "MonitoringFailed"

VARIABLES
    pc,              \* request -> the statement it is at
    description,     \* request -> item.description
    ctx,             \* request -> trace id of its langfuse context (None: no trace)
    results_score,   \* request -> scanner name -> score (None before the scan)
    result,          \* request -> the classifier's output (None before the call)
    id,              \* request -> the endpoint's local "id"
    scannerCalls,    \* request -> calls of input_guardrail.scan
    classifierCalls, \* request -> calls of chain.invoke
    response,        \* request -> what the caller of /classify received
    traces,          \* backend: ids of the traces opened
    scores,          \* backend: the scores, one record per score id
    issued,          \* history: the scores the /classify flow created
    issuedBy,        \* history: <<score id, request>>, who created which
    lastConvert,     \* the last /convert call and what its caller received
    converts         \* number of /convert calls so far

vars == <<pc, description, ctx, results_score, result, id, scannerCalls,
          classifierCalls, response, traces, scores, issued, issuedBy,
          lastConvert, converts>>

reqLocals == <<description, ctx, results_score, result, id>>
backend == <<traces, scores, issued, issuedBy>>
calls == <<scannerCalls, classifierCalls>>
convertVars == <<lastConvert, converts>>

NoResponse ==
    [status |-> 0, detail |-> "", trace_id |-> None, score_id |-> None, result |-> None]

\* fastapi.HTTPException(status_code, detail) as the caller sees it.
HTTPException(status_code, detail) ==
    [status |-> status_code, detail |-> detail,
     trace_id |-> None, score_id |-> None, result |-> None]

\* The endpoint's try/except: a ValueError becomes HTTPException(400, str(e));
\* any other exception leaves the handler and the server answers 500.
Raised(type, message) ==
    IF type = "ValueError"
    THEN HTTPException(400, message)
    ELSE HTTPException(500, "Internal Server Error")

Init ==
    /\ pc = [r \in Requests |-> "idle"]
    /\ description = [r \in Requests |-> ""]
    /\ ctx = [r \in Requests |-> None]
    /\ results_score = [r \in Requests |-> None]
    /\ result = [r \in Requests |-> None]
    /\ id = [r \in Requests |-> None]
    /\ scannerCalls = [r \in Requests |-> 0]
    /\ classifierCalls = [r \in Requests |-> 0]
    /\ response = [r \in Requests |-> NoResponse]
    /\ traces = {}
    /\ scores = {}
    /\ issued = {}
    /\ issuedBy = {}
    /\ lastConvert = None
    /\ converts = 0

(***************************************************************************)
(* The monitoring wrapper, LLMApplicationMonitoring.                       *)
(***************************************************************************)
Max(S) == CHOOSE x \in S : \A y \in S : y <= x

\* The id the client generates for a score that is given none: one that no
\* score carries or carried.
NewScoreId(store, history) ==
    ScoreId(Max({0} \cup {x.id[2] : x \in store \cup history}) + 1)

\* The id of the trace the observe decorator opens.
NewTraceId(opened) == TraceId(Cardinality(opened) + 1)

\* langfuse.score(id=..., trace_id=..., name=..., value=...): the score is
\* stored under its id, replacing what that id held.
Upsert(store, score) == {x \in store : x.id # score.id} \cup {score}

\* Variant: score_id is not handed on to the client, so every call creates a
\* score under a new id.
update_trace_score_DropsId(store, new_id, trace_id, name, value, score_id) ==
    [id |-> new_id,
     scores |-> Upsert(store, [id |-> new_id, trace_id |-> trace_id,
                               name |-> name, value |-> value])]

\* update_trace_score(trace_id, name, value, score_id=None): the store after
\* the call and the id of the score object it returns.
update_trace_score(store, new_id, trace_id, name, value, score_id) ==
    LET sid == IF score_id = None THEN new_id ELSE score_id
    IN  [id |-> sid,
         scores |-> Upsert(store, [id |-> sid, trace_id |-> trace_id,
                                   name |-> name, value |-> value])]

\* Variant: the score is dropped instead of being sent to the backend.
score_current_trace_Drops(store, new_id, current_trace, name, value) == store

\* score_current_trace(name, value): a new score on the trace of the context.
score_current_trace(store, new_id, current_trace, name, value) ==
    Upsert(store, [id |-> new_id, trace_id |-> current_trace,
                   name |-> name, value |-> value])

\* Variant: the trace id is read outside the request's context, where there
\* is no current trace.
get_trace_id_NoContext(context) == None

\* get_trace_id(): the trace id of the caller's langfuse context.
get_trace_id(context) == context

(***************************************************************************)
(* classify_description and __evaluate_input, one action per statement     *)
(* that calls a collaborator or decides the flow.                          *)
(***************************************************************************)
\* The handler of request r ends: its caller receives resp.
Respond(r, resp) ==
    /\ pc' = [pc EXCEPT ![r] = "done"]
    /\ response' = [response EXCEPT ![r] = resp]

\* Variant: the test for an empty description is missing.
IsEmpty_Missing(d) == FALSE

\* "if not description": the empty string is falsy.
IsEmpty(d) == d = ""

\* Variant: the comparison is strict, so a score equal to the threshold passes.
IsBlocked_Strict(rs) == rs["PromptInjection"] > Threshold

\* 'if results_score["PromptInjection"] >= 0.5'.
IsBlocked(rs) == rs["PromptInjection"] >= Threshold

\* Variant: the last of the eight tests is missing.
HasRequiredFields_NoTier4(res) ==
    /\ "description" \in res /\ "id" \in res
    /\ "parent_id" \in res /\ "name" \in res
    /\ "tier_1" \in res /\ "tier_2" \in res
    /\ "tier_3" \in res

\* The eight "not in result" tests.
HasRequiredFields(res) ==
    /\ "description" \in res /\ "id" \in res
    /\ "parent_id" \in res /\ "name" \in res
    /\ "tier_1" \in res /\ "tier_2" \in res
    /\ "tier_3" \in res /\ "tier_4" \in res

\* POST /classify arrives: @monitor.observe() on the endpoint opens the
\* request's trace before the body runs; "description = item.description".
Request(r, d) ==
    /\ pc[r] = "idle"
    /\ LET t == NewTraceId(traces)
       IN  /\ traces' = traces \cup {t}
           /\ ctx' = [ctx EXCEPT ![r] = t]
    /\ description' = [description EXCEPT ![r] = d]
    /\ pc' = [pc EXCEPT ![r] = "validate"]
    /\ UNCHANGED <<results_score, result, id, calls, response, scores, issued,
                   issuedBy,
                   convertVars>>

\* Variant: the guardrail evaluation is skipped after the validation.
Validate_SkipsEvaluation(r) ==
    /\ pc[r] = "validate"
    /\ IF IsEmpty(description[r])
       THEN Respond(r, Raised("ValueError", InvalidInput))
       ELSE /\ pc' = [pc EXCEPT ![r] = "handler"]
            /\ UNCHANGED response
    /\ UNCHANGED <<reqLocals, calls, backend, convertVars>>

\* classify_description: "if not description: raise ValueError(...)".
Validate(r) ==
    /\ pc[r] = "validate"
    /\ IF IsEmpty(description[r])
       THEN Respond(r, Raised("ValueError", InvalidInput))
       ELSE /\ pc' = [pc EXCEPT ![r] = "scan"]
            /\ UNCHANGED response
    /\ UNCHANGED <<reqLocals, calls, backend, convertVars>>

\* __evaluate_input: "_, _, results_score = input_guardrail.scan(description)".
Scan(r, score) ==
    /\ pc[r] = "scan"
    /\ scannerCalls' = [scannerCalls EXCEPT ![r] = @ + 1]
    /\ results_score' = [results_score EXCEPT ![r] = [n \in Scanners |-> score]]
    /\ pc' = [pc EXCEPT ![r] = "score"]
    /\ UNCHANGED <<description, ctx, result, id, classifierCalls, response,
                   backend, convertVars>>

\* The scan raises (the scanner's model cannot run): nothing catches it but
\* the endpoint's "except ValueError".
ScanRaises(r, type) ==
    /\ pc[r] = "scan"
    /\ scannerCalls' = [scannerCalls EXCEPT ![r] = @ + 1]
    /\ Respond(r, Raised(type, ScannerUnavailable))
    /\ UNCHANGED <<reqLocals, classifierCalls, backend, convertVars>>

\* __evaluate_input: 'monitor.score_current_trace("prompt_injection", ...)'.
ScoreCurrentTrace(r) ==
    /\ pc[r] = "score"
    /\ LET sid == NewScoreId(scores, issued)
           after == score_current_trace(scores, sid, ctx[r], "prompt_injection",
                                        results_score[r]["PromptInjection"])
       IN  /\ scores' = after
           /\ issued' = issued \cup {x \in after : x.id = sid}
           /\ issuedBy' = issuedBy \cup {<<sid, r>>}
    /\ pc' = [pc EXCEPT ![r] = "gate"]
    /\ UNCHANGED <<reqLocals, calls, response, traces, convertVars>>

\* classify_description: the threshold test on the returned score.
Gate(r) ==
    /\ pc[r] = "gate"
    /\ IF IsBlocked(results_score[r])
       THEN Respond(r, Raised("ValueError", BlockedInput))
       ELSE /\ pc' = [pc EXCEPT ![r] = "handler"]
            /\ UNCHANGED response
    /\ UNCHANGED <<reqLocals, calls, backend, convertVars>>

\* "langfuse_handler = monitor.get_context().get_current_langchain_handler()":
\* the callback handler of the request's trace, handed to chain.invoke.
GetLangchainHandler(r) ==
    /\ pc[r] = "handler"
    /\ pc' = [pc EXCEPT ![r] = "taxonomy"]
    /\ UNCHANGED <<reqLocals, calls, response, backend, convertVars>>

\* The try block around open("iab_taxonomy.json") and json.load: the file is
\* read and parsed.
LoadTaxonomy(r) ==
    /\ pc[r] = "taxonomy"
    /\ pc' = [pc EXCEPT ![r] = "invoke"]
    /\ UNCHANGED <<reqLocals, calls, response, backend, convertVars>>

\* The same try block when open or json.load raises e: "except Exception as
\* e" raises it again as ValueError(f"Error loading taxonomy file: {e}").
LoadTaxonomyRaises(r, e) ==
    /\ pc[r] = "taxonomy"
    /\ Respond(r, Raised("ValueError", TaxonomyUnavailable(e)))
    /\ UNCHANGED <<reqLocals, calls, backend, convertVars>>

\* "result = chain.invoke(...)": the downstream classifier answers.
Invoke(r, output) ==
    /\ pc[r] = "invoke"
    /\ classifierCalls' = [classifierCalls EXCEPT ![r] = @ + 1]
    /\ result' = [result EXCEPT ![r] = output]
    /\ pc' = [pc EXCEPT ![r] = "check"]
    /\ UNCHANGED <<description, ctx, results_score, id, scannerCalls, response,
                   backend, convertVars>>

\* chain.invoke raises: an OutputParserException is a ValueError, an error of
\* the model's API is not.
InvokeRaises(r, type) ==
    /\ pc[r] = "invoke"
    /\ classifierCalls' = [classifierCalls EXCEPT ![r] = @ + 1]
    /\ Respond(r, Raised(type, ClassificationFailed))
    /\ UNCHANGED <<reqLocals, scannerCalls, backend, convertVars>>

\* Variant: an incomplete result is answered by calling the classifier again.
CheckFields_Retries(r) ==
    /\ pc[r] = "check"
    /\ IF HasRequiredFields(result[r])
       THEN pc' = [pc EXCEPT ![r] = "trace_id"]
       ELSE pc' = [pc EXCEPT ![r] = "invoke"]
    /\ classifierCalls[r] < 3
    /\ UNCHANGED <<reqLocals, calls, response, backend, convertVars>>

\* The required-fields test and "return result".
CheckFields(r) ==
    /\ pc[r] = "check"
    /\ IF HasRequiredFields(result[r])
       THEN /\ pc' = [pc EXCEPT ![r] = "trace_id"]
            /\ UNCHANGED <<response, result>>
       ELSE /\ Respond(r, Raised("ValueError", IncompleteResult))
            /\ result' = [result EXCEPT ![r] = None]
    /\ UNCHANGED <<description, ctx, results_score, id, calls, backend,
                   convertVars>>

\* Endpoint: "id = monitor.get_trace_id()".
GetTraceId(r) ==
    /\ pc[r] = "trace_id"
    /\ id' = [id EXCEPT ![r] = get_trace_id(ctx[r])]
    /\ pc' = [pc EXCEPT ![r] = "converted"]
    /\ UNCHANGED <<description, ctx, results_score, result, calls, response,
                   backend, convertVars>>

\* Endpoint: 'score_id = monitor.update_trace_score(id, "converted", False).id'
\* and the return of {"trace_id", "score_id", "result"}.
IssueConverted(r) ==
    /\ pc[r] = "converted"
    /\ LET sid == NewScoreId(scores, issued)
           upd == update_trace_score(scores, sid, id[r], "converted", FALSE, None)
       IN  /\ scores' = upd.scores
           /\ issued' = issued \cup {x \in upd.scores : x.id = upd.id}
           /\ issuedBy' = issuedBy \cup {<<upd.id, r>>}
           /\ Respond(r, [status |-> 200, detail |-> "", trace_id |-> id[r],
                          score_id |-> upd.id, result |-> result[r]])
    /\ UNCHANGED <<reqLocals, calls, traces, convertVars>>

(***************************************************************************)
(* POST /convert.                                                          *)
(***************************************************************************)
\* The (trace_id, score_id) pairs /classify has returned so far.
IssuedPairs ==
    {<<response[r].trace_id, response[r].score_id>> :
        r \in {q \in Requests : response[q].status = 200}}

\* Ids a caller of /convert may send: those that exist and one of each kind
\* that was never issued.
ConvertTraceIds == traces \cup {UnknownTraceId}
ConvertScoreIds == {x.id : x \in scores} \cup {UnknownScoreId}

\* The pairs a caller may send: ConvertModel takes any two strings, so any
\* trace id with any score id, a score's id with another trace's id included.
ConvertPairs == ConvertTraceIds \X ConvertScoreIds

\* The call before this one was sent the same pair.
Repeated(trace_id, score_id) ==
    /\ lastConvert # None
    /\ lastConvert.trace_id = trace_id
    /\ lastConvert.score_id = score_id

\* Variant: convert is decorated with @monitor.observe() like the /classify
\* endpoint, so every call opens a trace of its own.
Convert_Observed(trace_id, score_id) ==
    /\ converts < MaxConverts
    /\ converts' = converts + 1
    /\ traces' = traces \cup {NewTraceId(traces)}
    /\ LET sid == NewScoreId(scores, issued)
           upd == update_trace_score(scores, sid, trace_id, "converted", TRUE,
                                     score_id)
       IN  /\ scores' = upd.scores
           /\ lastConvert' =
                [trace_id |-> trace_id, score_id |-> score_id,
                 status |-> 200, body |-> TRUE,
                 repeated |-> Repeated(trace_id, score_id)]
    /\ UNCHANGED <<pc, reqLocals, calls, response, issued, issuedBy>>

\* convert(settings): update_trace_score(trace_id, "converted", True,
\* score_id=score_id), then "return True".  body: the caller received true.
Convert(trace_id, score_id) ==
    /\ converts < MaxConverts
    /\ converts' = converts + 1
    /\ LET sid == NewScoreId(scores, issued)
           upd == update_trace_score(scores, sid, trace_id, "converted", TRUE,
                                     score_id)
       IN  /\ scores' = upd.scores
           /\ lastConvert' =
                [trace_id |-> trace_id, score_id |-> score_id,
                 status |-> 200, body |-> TRUE,
                 repeated |-> Repeated(trace_id, score_id)]
    /\ UNCHANGED <<pc, reqLocals, calls, response, traces, issued, issuedBy>>

(***************************************************************************)
(* A monitoring call raises.  The wrapper methods hand on what the client  *)
(* does; neither __evaluate_input nor classify_description catches it, the *)
(* /classify endpoint catches ValueError only and convert catches nothing. *)
(***************************************************************************)
\* monitor.score_current_trace(...) raises in __evaluate_input.
ScoreCurrentTraceRaises(r, type) ==
    /\ pc[r] = "score"
    /\ Respond(r, Raised(type, MonitoringFailed))
    /\ UNCHANGED <<reqLocals, calls, backend, convertVars>>

\* monitor.get_context().get_current_langchain_handler() raises in
\* classify_description, before the taxonomy file is opened.
GetLangchainHandlerRaises(r, type) ==
    /\ pc[r] = "handler"
    /\ Respond(r, Raised(type, MonitoringFailed))
    /\ UNCHANGED <<reqLocals, calls, backend, convertVars>>

\* monitor.get_trace_id() raises in the endpoint.
GetTraceIdRaises(r, type) ==
    /\ pc[r] = "trace_id"
    /\ Respond(r, Raised(type, MonitoringFailed))
    /\ UNCHANGED <<reqLocals, calls, backend, convertVars>>

\* monitor.update_trace_score(id, "converted", False) raises in the endpoint.
UpdateTraceScoreRaises(r, type) ==
    /\ pc[r] = "converted"
    /\ Respond(r, Raised(type, MonitoringFailed))
    /\ UNCHANGED <<reqLocals, calls, backend, convertVars>>

\* monitor.update_trace_score(...) raises in convert: there is no try, so
\* whatever the exception the server answers 500 and nothing is stored.
ConvertRaises(trace_id, score_id, type) ==
    /\ converts < MaxConverts
    /\ converts' = converts + 1
    /\ lastConvert' =
         [trace_id |-> trace_id, score_id |-> score_id,
          status |-> 500, body |-> FALSE,
          repeated |-> Repeated(trace_id, score_id)]
    /\ UNCHANGED <<pc, reqLocals, calls, response, backend>>

(***************************************************************************)
(* The server.                                                             *)
(***************************************************************************)
\* No handler is running: the event loop is free to start one.
LoopFree == \A r \in Requests : pc[r] \in {"idle", "done"}

\* Requests are numbered in the order they arrive.
NextToArrive(r) == \A q \in Requests : q < r => pc[q] # "idle"

Next ==
    \/ \E r \in Requests, d \in Descriptions :
          LoopFree /\ NextToArrive(r) /\ Request(r, d)
    \/ \E r \in Requests : Validate(r)
    \/ \E r \in Requests, s \in Scores : Scan(r, s)
    \/ \E r \in Requests, e \in ExceptionTypes : ScanRaises(r, e)
    \/ \E r \in Requests : ScoreCurrentTrace(r)
    \/ \E r \in Requests : Gate(r)
    \/ \E r \in Requests : GetLangchainHandler(r)
    \/ \E r \in Requests : LoadTaxonomy(r)
    \/ \E r \in Requests, e \in TaxonomyErrors : LoadTaxonomyRaises(r, e)
    \/ \E r \in Requests, o \in ClassifierOutputs : Invoke(r, o)
    \/ \E r \in Requests, e \in ExceptionTypes : InvokeRaises(r, e)
    \/ \E r \in Requests : CheckFields(r)
    \/ \E r \in Requests : GetTraceId(r)
    \/ \E r \in Requests : IssueConverted(r)
    \/ \E p \in ConvertPairs : LoopFree /\ Convert(p[1], p[2])

Spec == Init /\ [][Next]_vars

\* The same server with a monitoring client whose calls may raise.
NextMonitoringFailure ==
    \/ Next
    \/ \E r \in Requests, e \in ExceptionTypes : ScoreCurrentTraceRaises(r, e)
    \/ \E r \in Requests, e \in ExceptionTypes : GetLangchainHandlerRaises(r, e)
    \/ \E r \in Requests, e \in ExceptionTypes : GetTraceIdRaises(r, e)
    \/ \E r \in Requests, e \in ExceptionTypes : UpdateTraceScoreRaises(r, e)
    \/ \E p \in ConvertPairs, e \in ExceptionTypes :
          LoopFree /\ ConvertRaises(p[1], p[2], e)

SpecMonitoringFailure == Init /\ [][NextMonitoringFailure]_vars

(***************************************************************************)
(* Properties.                                                             *)
(***************************************************************************)
Done(r) == pc[r] = "done"
Scanned(r) == results_score[r] # None
Score(r) == results_score[r]["PromptInjection"]
Completed(r) == response[r].status = 200
FailedWith(r, message) == Done(r) /\ response[r].status = 400 /\ response[r].detail = message
\* Request r ended with TaxonomyUnavailable, whatever the cause.
TaxonomyFailed(r) == \E e \in TaxonomyErrors : FailedWith(r, TaxonomyUnavailable(e))

\* C1: a non-empty description whose prompt-injection score is at or above
\* the threshold (equality included) is never handed to the classifier, the
\* request gets no further than the threshold test, and it ends rejected
\* with BlockedInput.
C1_BlockedNeverClassified ==
    \A r \in Requests :
        (Scanned(r) /\ Score(r) >= Threshold) =>
            /\ description[r] # ""
            /\ classifierCalls[r] = 0
            /\ pc[r] \in {"score", "gate", "done"}
            /\ Done(r) => FailedWith(r, BlockedInput)

\* C1, its case: a request whose score equals the threshold was rejected.
C1_Witness ==
    \E r \in Requests :
        /\ Scanned(r) /\ Score(r) = Threshold
        /\ FailedWith(r, BlockedInput)
        /\ classifierCalls[r] = 0

\* C2 as stated: every finished request whose score is below the threshold
\* has invoked the classifier exactly once.
C2_ExactlyOnceWhateverHappens ==
    \A r \in Requests :
        (Done(r) /\ Scanned(r) /\ Score(r) < Threshold) => classifierCalls[r] = 1

\* C2, amended: a request whose score is below the threshold invokes the
\* classifier at most once: not before the taxonomy is loaded, exactly once
\* from the call on, and not at all when it ends with TaxonomyUnavailable.
C2_AtMostOnceAndOnceIfTaxonomyLoaded ==
    \A r \in Requests :
        (Scanned(r) /\ Score(r) < Threshold) =>
            classifierCalls[r] =
                IF pc[r] \in {"score", "gate", "handler", "taxonomy", "invoke"} THEN 0
                ELSE IF TaxonomyFailed(r) THEN 0
                ELSE 1

\* C2, its cases: one request below the threshold ended after exactly one
\* classifier call, another ended with TaxonomyUnavailable and none.
C2_Witness ==
    \E r, q \in Requests :
        /\ Done(r) /\ Scanned(r) /\ Score(r) < Threshold /\ classifierCalls[r] = 1
        /\ Scanned(q) /\ Score(q) < Threshold
        /\ TaxonomyFailed(q) /\ classifierCalls[q] = 0

\* C3: whenever the classifier is called for a request, the scan of that
\* request has already returned its scores (and the classifier is not called
\* before: a request that has not been scanned has no classifier call).
C3_ScanBeforeClassifier ==
    /\ [](\A r \in Requests :
            classifierCalls[r] > 0 => (Scanned(r) /\ scannerCalls[r] = 1))
    /\ [][\A r \in Requests :
            classifierCalls'[r] > classifierCalls[r] =>
                (Scanned(r) /\ scannerCalls[r] = 1)]_vars

\* C3, its case: the classifier was called for a scanned request.
C3_Witness ==
    \E r \in Requests : classifierCalls[r] = 1 /\ Scanned(r) /\ scannerCalls[r] = 1

\* C4 as stated: when a request fails with InvalidInput, no trace has been
\* opened for it and no scanner has been invoked.
C4_NoTraceNoScanner ==
    \A r \in Requests :
        FailedWith(r, InvalidInput) =>
            /\ ctx[r] = None
            /\ scannerCalls[r] = 0

\* C4, amended: a request with an empty description fails with InvalidInput
\* and 400; no scanner and no classifier has been invoked and the request
\* has recorded no score, but its trace is already open (the endpoint's
\* observe decorator opened it before the body ran).
C4_InvalidInputBeforeScanner ==
    \A r \in Requests :
        (pc[r] # "idle" /\ description[r] = "") =>
            /\ Done(r) => FailedWith(r, InvalidInput)
            /\ pc[r] \in {"validate", "done"}
            /\ scannerCalls[r] = 0 /\ classifierCalls[r] = 0
            /\ ~ Scanned(r)
            /\ ctx[r] \in traces
            /\ \A x \in issued : x.trace_id # ctx[r]

\* C4, its case: an empty description was refused.
C4_Witness ==
    \E r \in Requests :
        description[r] = "" /\ FailedWith(r, InvalidInput) /\ ctx[r] \in traces

\* C5 as stated: a /convert call with a pair that /classify never issued
\* does not answer true.
C5_UnknownPairRefused ==
    (lastConvert # None /\
     <<lastConvert.trace_id, lastConvert.score_id>> \notin IssuedPairs) =>
        ~ (lastConvert.status = 200 /\ lastConvert.body = TRUE)

\* The "converted" scores the backend holds on trace t.
ConvertedOn(t) == {x \in scores : x.trace_id = t /\ x.name = "converted"}

\* C6: every convert(t, s) on a pair /classify has issued answers true; s is
\* issued as the one "converted" score of trace t, with value false; and a
\* convert(t, s) that finds s the one "converted" score of t, false or true,
\* leaves s the one "converted" score of t, with value true: the first call
\* flips it, a repeated call neither errors, nor adds a score, nor flips it
\* back.
C6_ConvertIdempotent ==
    /\ []((lastConvert # None /\
           <<lastConvert.trace_id, lastConvert.score_id>> \in IssuedPairs) =>
              (lastConvert.status = 200 /\ lastConvert.body = TRUE))
    /\ [][\A r \in Requests :
            (~ Completed(r) /\ Completed(r)') =>
                ConvertedOn(ctx[r])' =
                    {[id |-> response'[r].score_id, trace_id |-> ctx[r],
                      name |-> "converted", value |-> FALSE]}]_vars
    /\ [][\A p \in IssuedPairs :
            (/\ converts' # converts
             /\ lastConvert'.trace_id = p[1] /\ lastConvert'.score_id = p[2]
             /\ \E v \in BOOLEAN :
                   ConvertedOn(p[1]) =
                       {[id |-> p[2], trace_id |-> p[1],
                         name |-> "converted", value |-> v]}) =>
                /\ lastConvert'.status = 200 /\ lastConvert'.body = TRUE
                /\ ConvertedOn(p[1])' =
                       {[id |-> p[2], trace_id |-> p[1],
                         name |-> "converted", value |-> TRUE]}]_vars

\* C6, its case: convert(t, s) was called twice on an issued pair, and only
\* that; s is the one "converted" score of t and it is true.
C6_Witness ==
    /\ lastConvert # None
    /\ lastConvert.repeated
    /\ converts = 2
    /\ <<lastConvert.trace_id, lastConvert.score_id>> \in IssuedPairs
    /\ ConvertedOn(lastConvert.trace_id) =
           {[id |-> lastConvert.score_id, trace_id |-> lastConvert.trace_id,
             name |-> "converted", value |-> TRUE]}

\* C7 as stated: whether or not a monitoring call fails, a request whose
\* score is at or above the threshold ends with BlockedInput, and a request
\* whose classifier returned all required fields ends completed with them.
C7_MonitoringFailureHarmless ==
    \A r \in Requests :
        Done(r) =>
            /\ (Scanned(r) /\ Score(r) >= Threshold) => FailedWith(r, BlockedInput)
            /\ (result[r] # None /\ RequiredFields \subseteq result[r]) =>
                   (Completed(r) /\ response[r].result = result[r])

\* C8 as stated, for /classify: every request that does not succeed is
\* answered with a structured 400 (the /convert side of the claim, that a
\* pair never issued is not answered as a success, is C5_UnknownPairRefused).
C8_EveryFailureIs4xx ==
    \A r \in Requests : (Done(r) /\ ~ Completed(r)) => response[r].status = 400

\* The "converted" scores the /classify flow has created on request r's trace.
IssuedConverted(r) == {x \in issued : x.trace_id = ctx[r] /\ x.name = "converted"}

\* C9: a completed request has had exactly one "converted" score issued on
\* its own trace, with value false; the response carries that score's id and
\* that trace's id.  A request that is not completed (in flight,
\* InvalidInput, rejected, failed on the classifier path) has had none issued.
C9_ConvertedIssuedOnCompletion ==
    \A r \in Requests :
        IF Completed(r)
        THEN /\ ctx[r] \in traces
             /\ response[r].trace_id = ctx[r]
             /\ IssuedConverted(r) =
                    {[id |-> response[r].score_id, trace_id |-> ctx[r],
                      name |-> "converted", value |-> FALSE]}
        ELSE IssuedConverted(r) = {}

\* C9, its cases: one request completed with its score issued, another was
\* rejected with none.
C9_Witness ==
    \E r, q \in Requests :
        /\ Completed(r) /\ Cardinality(IssuedConverted(r)) = 1
        /\ FailedWith(q, BlockedInput) /\ IssuedConverted(q) = {}

\* C10: a completed response carries all eight required fields, and the
\* required-fields test lets the classifier's output pass exactly when it
\* holds all eight; otherwise the request ends with IncompleteResult.
C10_AllEightFieldsOrIncompleteResult ==
    /\ [](\A r \in Requests :
            Completed(r) => RequiredFields \subseteq response[r].result)
    /\ [][\A r \in Requests :
            (pc[r] = "check" /\ pc'[r] # "check") =>
                IF RequiredFields \subseteq result[r]
                THEN pc'[r] = "trace_id" /\ result'[r] = result[r]
                ELSE /\ pc'[r] = "done"
                     /\ response'[r].status = 400
                     /\ response'[r].detail = IncompleteResult]_vars

\* C10, its cases: one request completed with all eight fields, another
\* ended with IncompleteResult.
C10_Witness ==
    \E r, q \in Requests :
        /\ Completed(r) /\ response[r].result = RequiredFields
        /\ FailedWith(q, IncompleteResult)

\* C11 as stated, in whatever order /classify requests and /convert calls are
\* served: the requests that have arrived have pairwise different traces, a
\* completed request's response names the request's own trace, no two
\* responses carry the same (trace_id, score_id) pair, and no score a
\* request created (prompt_injection, converted) is ever on another
\* request's trace.
C11_NoScoreOnAnotherRequestsTrace ==
    /\ \A r, q \in Requests :
          (r # q /\ pc[r] # "idle" /\ pc[q] # "idle") =>
              (ctx[r] # ctx[q] /\ ctx[r] \in traces)
    /\ \A r \in Requests : Completed(r) => response[r].trace_id = ctx[r]
    /\ \A r, q \in Requests :
          (r # q /\ Completed(r) /\ Completed(q)) =>
              <<response[r].trace_id, response[r].score_id>> #
                  <<response[q].trace_id, response[q].score_id>>
    /\ \A r, q \in Requests :
          (r # q /\ pc[q] # "idle") =>
              \A e \in issuedBy :
                  e[2] = r => \A x \in scores : x.id = e[1] => x.trace_id # ctx[q]

\* The "prompt_injection" scores the backend holds on trace t.
PromptInjectionOn(t) == {x \in scores : x.trace_id = t /\ x.name = "prompt_injection"}

\* Request r's trace holds exactly one "prompt_injection" score: the one r
\* recorded, with the score r's scan returned.
Recorded(r) ==
    /\ Scanned(r)
    /\ \E x \in scores :
          /\ PromptInjectionOn(ctx[r]) = {x}
          /\ x.value = Score(r)
          /\ <<x.id, r>> \in issuedBy

C13_ConvertChangesOnlyItsScore ==
    [][converts' # converts =>
          /\ lastConvert' # None
          /\ scannerCalls' = scannerCalls
          /\ classifierCalls' = classifierCalls
          /\ traces' = traces
          /\ pc' = pc /\ response' = response /\ ctx' = ctx
          /\ issued' = issued
          /\ \A x \in scores : x.id # lastConvert'.score_id => x \in scores'
          /\ \A y \in scores' : y.id # lastConvert'.score_id => y \in scores
          /\ \A y \in scores' :
                y.id = lastConvert'.score_id =>
                    y = [id |-> lastConvert'.score_id,
                         trace_id |-> lastConvert'.trace_id,
                         name |-> "converted", value |-> TRUE]]_vars

\* C13, its case: /convert was called with the pair of a completed request
\* while another request had scores on its own trace; the prompt_injection
\* scores of both traces are as recorded.
C13_Witness ==
    /\ lastConvert # None
    /\ \E r, q \in Requests :
          /\ r # q
          /\ Completed(r)
          /\ lastConvert.trace_id = response[r].trace_id
          /\ lastConvert.score_id = response[r].score_id
          /\ Recorded(r)
          /\ \E x \in ConvertedOn(ctx[r]) : x.id = lastConvert.score_id /\ x.value
          /\ Recorded(q)

====
